---- MODULE Spec2Model ----
(***************************************************************************)
(* State-machine model of the game-generator front end:                    *)
(*   GameGenerator        (frontend/app/index.tsx, the form screen),       *)
(*   GameVideoPreview     (frontend/app/index.tsx, AI scene slideshow),    *)
(*   GamePreviewAnimation (earlier revision of the preview widget).        *)
(* Each component's React state is one record variable whose fields carry  *)
(* the names of the useState hooks.  Handlers are actions; an awaited      *)
(* fetch is a record in an in-flight sequence that a later action          *)
(* completes.                                                              *)
(*                                                                         *)
(* Conventions                                                             *)
(*   - a nullable value (string | null) is a sequence of length 0 or 1:    *)
(*     None is null, Some(x) is the value x;                               *)
(*   - a text is a sequence of segments; a segment is either one           *)
(*     white-space character or a run of characters that begins and ends   *)
(*     with a non-white-space character, so String.trim() is computed on   *)
(*     the sequence;                                                       *)
(*   - a JSON value used as `detail` is a tagged record.                   *)
(***************************************************************************)
EXTENDS Integers, Sequences, FiniteSets, TLC

VARIABLES
  gen,          \* GameGenerator: the nine useState hooks
  genFetches,   \* handleGenerate runs suspended at `await fetch(.../api/games/generate)`
  genSent,      \* number of calls of fetch(.../api/games/generate) so far
  video,        \* GameVideoPreview: props, hooks, the position of the running generateVideoScenes,
                \* its live intervals, and the game of the latest run started (lastRunGame)
  sceneFetches, \* scene requests in flight (fetch(.../api/generate-video-scene))
  sceneLog,     \* scene_number of every scene request issued by the current/last run, in order
  anim,         \* GamePreviewAnimation: props, the enemy, the background image, the effect
  bgFetches,    \* requests in flight to /api/generate-preview-image
  bgSent,       \* number of calls of fetch(.../api/generate-preview-image) by this instance
  play,         \* GamePreviewAnimation: the character, the bullets, the score, pending timers
  fx            \* GamePreviewAnimation: particles and explosions

vars ==
  <<gen, genFetches, genSent, video, sceneFetches, sceneLog, anim, bgFetches, bgSent, play, fx>>
genVars == <<gen, genFetches, genSent>>
videoVars == <<video, sceneFetches, sceneLog>>
animVars == <<anim, bgFetches, bgSent>>
playVars == <<play, fx>>

\* a step of one component leaves the other two alone
GenStep == UNCHANGED <<videoVars, animVars, playVars>>
VideoStep == UNCHANGED <<genVars, animVars, playVars>>
\* a step of the effect or of the background request leaves the game play alone
AnimStep == UNCHANGED <<genVars, videoVars, playVars>>
\* a step of the game play leaves the background request alone
PlayStep == UNCHANGED <<genVars, videoVars, bgFetches, bgSent>>
\* a step that runs the effect leaves the particles alone
EffectStep == UNCHANGED <<genVars, videoVars, fx>>

(***************************************************************************)
(* Bounds of the model                                                     *)
(***************************************************************************)
\* fetches to /api/games/generate explored per behaviour
MaxRequests == 2
\* runs of generateVideoScenes explored per behaviour
MaxRuns == 2
\* fetches to /api/generate-preview-image explored per behaviour
MaxBgRequests == 3
\* width of the window in pixels (Dimensions.get('window').width)
ScreenWidth == 230
\* grid points per pixel
SCALE == 2
\* presses of A and C (shots) explored per behaviour
MaxShots == 1
\* hits (150 points each) the score is followed to
MaxHits == 2
\* the ambient interval creates particles while particleIdRef is below this
MaxAmbient == 1

(***************************************************************************)
(* Nullable values, texts                                                  *)
(***************************************************************************)
None == <<>>
Some(x) == <<x>>

WhiteSpace == {" ", "\n"}

RECURSIVE TrimStart(_)
TrimStart(s) ==
  IF s # <<>> /\ Head(s) \in WhiteSpace THEN TrimStart(Tail(s)) ELSE s

RECURSIVE TrimEnd(_)
TrimEnd(s) ==
  IF s # <<>> /\ s[Len(s)] \in WhiteSpace
    THEN TrimEnd(SubSeq(s, 1, Len(s) - 1))
    ELSE s

\* String.prototype.trim
trim(s) == TrimEnd(TrimStart(s))

\* texts the user types into the prompt field (onChangeText)
TypedPrompts == { <<" ">>, <<" ", "dragon quest", "\n">> }
\* texts the user types into the character field
TypedCharacters == { <<>>, <<" ", "a knight">> }

(***************************************************************************)
(* Module-level data of index.tsx                                          *)
(***************************************************************************)
GENRES ==
  << "shooter", "racing", "sports", "adventure", "fighting",
     "rpg", "platformer", "horror", "simulation", "puzzle" >>

GenreIds == { GENRES[i] : i \in 1..Len(GENRES) }

PLATFORMS == << "javascript", "unity", "unreal" >>

CONTROL_SCHEMES == { "dpad_buttons", "swipe" }

GENRE_PROMPTS ==
  [ shooter |->
      << <<"A military shooter in a war-torn city with tactical combat...">>,
         <<"A sci-fi shooter on a space station fighting alien invaders...">>,
         <<"A zombie apocalypse shooter in an abandoned mall...">> >>,
    racing |->
      << <<"A street racing game in neon-lit Tokyo at night...">>,
         <<"A Formula 1 simulator on famous world circuits...">>,
         <<"An off-road rally racing through muddy jungle trails...">> >>,
    sports |->
      << <<"A professional football game in a packed stadium...">>,
         <<"A basketball street court 3v3 competition...">>,
         <<"A soccer World Cup final match experience...">> >>,
    adventure |->
      << <<"An ancient ruins explorer discovering lost civilizations...">>,
         <<"A jungle adventure searching for hidden treasure...">>,
         <<"A mountaineering expedition to reach the summit...">> >>,
    fighting |->
      << <<"A martial arts tournament with diverse fighting styles...">>,
         <<"A street fighting game in urban environments...">>,
         <<"A fantasy combat game with magical abilities...">> >>,
    rpg |->
      << <<"A medieval knight quest to slay a dragon...">>,
         <<"A mage academy student learning powerful spells...">>,
         <<"An epic journey to save the kingdom from darkness...">> >>,
    platformer |->
      << <<"A colorful world hopping adventure with collectibles...">>,
         <<"A robot running through futuristic floating cities...">>,
         <<"A magical forest platformer with elemental powers...">> >>,
    horror |->
      << <<"A haunted mansion exploration with supernatural enemies...">>,
         <<"A hospital survival horror escaping experiments...">>,
         <<"A dark forest survival against unknown creatures...">> >>,
    simulation |->
      << <<"A commercial airline pilot flying global routes...">>,
         <<"A farming simulator building the ultimate farm...">>,
         <<"A city builder creating a metropolis from scratch...">> >>,
    puzzle |->
      << <<"A portal-based puzzle game manipulating space...">>,
         <<"A physics puzzle solving ancient temple mechanisms...">>,
         <<"A time-manipulation puzzle changing past and future...">> >> ]

DEFAULT_PROMPTS ==
  << <<"A space shooter where you defend Earth from alien invasion...">>,
     <<"A high-speed racing game through neon city streets...">>,
     <<"An RPG adventure in a magical forest with mystical creatures...">>,
     <<"A survival horror game in an abandoned hospital...">> >>

(***************************************************************************)
(* JSON values exchanged with the backend                                  *)
(***************************************************************************)
Undefined == [t |-> "undefined", s |-> ""]
Str(x) == [t |-> "string", s |-> x]
EmptyArray == [t |-> "array", s |-> ""]

\* JavaScript truthiness of a JSON value ([] is truthy, "" and undefined are not)
Truthy(v) == v.t = "array" \/ (v.t = "string" /\ v.s # "")

\* String(v) as `new Error(v)` applies it to its message (String([]) is "")
StringOf(v) == IF v.t = "string" THEN v.s ELSE ""

\* the value null, as a response body and as the initial generatedGame
NullJson == [isNull |-> TRUE, name |-> "", schema |-> "absent", detail |-> Undefined]

GameWithScene ==
  [isNull |-> FALSE, name |-> "Star Raid", schema |-> "with_setting", detail |-> Undefined]
GameWithoutSchema ==
  [isNull |-> FALSE, name |-> "Untitled", schema |-> "absent", detail |-> Undefined]
\* a second generated game, for the props of the preview components
OtherGameWithScene ==
  [isNull |-> FALSE, name |-> "Turbo Drift", schema |-> "with_setting", detail |-> Undefined]
ErrorWithDetail ==
  [isNull |-> FALSE, name |-> "", schema |-> "absent", detail |-> Str("Genre not supported")]
ErrorWithEmptyList ==
  [isNull |-> FALSE, name |-> "", schema |-> "absent", detail |-> EmptyArray]

\* bodies the backend may answer with (the backend is an opaque collaborator):
\* with a status that is ok, and with a status that is not
OkBodies == { NullJson, GameWithScene, GameWithoutSchema }
ErrorBodies == { NullJson, GameWithoutSchema, ErrorWithDetail, ErrorWithEmptyList }

(***************************************************************************)
(* GameGenerator                                                           *)
(***************************************************************************)
VALIDATION_ERROR == "Please select a genre and enter a game description"
GENERIC_ERROR == "Failed to generate game"
\* messages of the errors the runtime throws; the code passes them through
NETWORK_ERROR == "Network request failed"
PARSE_ERROR == "JSON Parse error: Unexpected token"
NULL_DEREF_ERROR == "Cannot read property 'detail' of null"

GenInit ==
  /\ gen = [ selectedGenre        |-> None,
             prompt               |-> <<>>,
             characterDescription |-> <<>>,
             controlScheme        |-> "dpad_buttons",
             targetPlatform       |-> "javascript",
             isGenerating         |-> FALSE,
             generatedGame        |-> NullJson,
             showPreview          |-> FALSE,
             error                |-> None ]
  /\ genFetches = <<>>
  /\ genSent = 0

\* mutant: the table is looked up by a key that one genre id does not match
getExamplePrompts_KeyMismatch ==
  IF gen.selectedGenre # None /\ gen.selectedGenre[1] \in (DOMAIN GENRE_PROMPTS) \ {"rpg"}
    THEN GENRE_PROMPTS[gen.selectedGenre[1]]
    ELSE DEFAULT_PROMPTS

getExamplePrompts ==
  IF gen.selectedGenre # None /\ gen.selectedGenre[1] \in DOMAIN GENRE_PROMPTS
    THEN GENRE_PROMPTS[gen.selectedGenre[1]]
    ELSE DEFAULT_PROMPTS

setSelectedGenre(g) ==
  /\ GenStep
  /\ gen' = [gen EXCEPT !.selectedGenre = Some(g)]
  /\ UNCHANGED <<genFetches, genSent>>

setPrompt(text) ==
  /\ GenStep
  /\ gen' = [gen EXCEPT !.prompt = text]
  /\ UNCHANGED <<genFetches, genSent>>

handleExamplePrompt(k) ==
  /\ GenStep
  /\ k \in 1..Len(getExamplePrompts)
  /\ gen' = [gen EXCEPT !.prompt = getExamplePrompts[k]]
  /\ UNCHANGED <<genFetches, genSent>>

setCharacterDescription(text) ==
  /\ GenStep
  /\ gen' = [gen EXCEPT !.characterDescription = text]
  /\ UNCHANGED <<genFetches, genSent>>

setControlScheme(c) ==
  /\ GenStep
  /\ gen' = [gen EXCEPT !.controlScheme = c]
  /\ UNCHANGED <<genFetches, genSent>>

setTargetPlatform(p) ==
  /\ GenStep
  /\ gen' = [gen EXCEPT !.targetPlatform = p]
  /\ UNCHANGED <<genFetches, genSent>>

\* mutant: the prompt is tested without trim()
InputInvalid_NoTrim == gen.selectedGenre = None \/ gen.prompt = <<>>

\* !selectedGenre || !prompt.trim()
InputInvalid == gen.selectedGenre = None \/ trim(gen.prompt) = <<>>

\* the JSON body of the request
RequestBody ==
  [ prompt                |-> trim(gen.prompt),
    genre                 |-> gen.selectedGenre[1],
    character_description |->
      IF trim(gen.characterDescription) # <<>>
        THEN trim(gen.characterDescription)
        ELSE <<"A brave hero">>,
    control_scheme        |-> gen.controlScheme,
    target_platform       |-> gen.targetPlatform ]

\* mutant: the button is never disabled
GenerateButton_AlwaysEnabled == TRUE

\* the Generate button: disabled={isGenerating}
GenerateButtonEnabled == ~gen.isGenerating

\* a handleGenerate run suspended at its await: the request it sent and the
\* generatedGame and showPreview of the render whose handler was pressed
SuspendedRun ==
  [ body   |-> RequestBody,
    before |-> [generatedGame |-> gen.generatedGame, showPreview |-> gen.showPreview] ]

\* mutant: a validated press does not clear the error
handleGenerate_KeepsError ==
  /\ GenStep
  /\ GenerateButtonEnabled
  /\ IF InputInvalid
       THEN /\ gen' = [gen EXCEPT !.error = Some(VALIDATION_ERROR)]
            /\ UNCHANGED <<genFetches, genSent>>
       ELSE /\ genSent < MaxRequests
            /\ gen' = [gen EXCEPT !.isGenerating = TRUE]
            /\ genFetches' = Append(genFetches, SuspendedRun)
            /\ genSent' = genSent + 1

\* handleGenerate up to its first await
handleGenerate ==
  /\ GenStep
  /\ GenerateButtonEnabled
  /\ IF InputInvalid
       THEN /\ gen' = [gen EXCEPT !.error = Some(VALIDATION_ERROR)]
            /\ UNCHANGED <<genFetches, genSent>>
       ELSE /\ genSent < MaxRequests
            /\ gen' = [gen EXCEPT !.isGenerating = TRUE, !.error = None]
            /\ genFetches' = Append(genFetches, SuspendedRun)
            /\ genSent' = genSent + 1

RemoveAt(s, i) == SubSeq(s, 1, i - 1) \o SubSeq(s, i + 1, Len(s))

\* mutant: the message is shown without the fallback
CatchMessage_NoFallback(message) == message

\* err.message || 'Failed to generate game'
CatchMessage(message) == IF message # "" THEN message ELSE GENERIC_ERROR

\* mutant: the catch block sends the request again
GenerateCatch_Retry(i, message) ==
  /\ gen' = [gen EXCEPT !.error = Some(CatchMessage(message))]
  /\ IF genSent < MaxRequests
       THEN /\ genFetches' = Append(RemoveAt(genFetches, i), genFetches[i])
            /\ genSent' = genSent + 1
       ELSE /\ genFetches' = RemoveAt(genFetches, i)
            /\ UNCHANGED genSent

\* catch (err) { setError(...) } finally { setIsGenerating(false) } of the i-th run
GenerateCatch(i, message) ==
  /\ gen' = [gen EXCEPT !.error = Some(CatchMessage(message)), !.isGenerating = FALSE]
  /\ genFetches' = RemoveAt(genFetches, i)
  /\ UNCHANGED genSent

\* message of the value thrown at `throw new Error(data.detail || 'Failed to generate game')`
ThrownMessage(data) ==
  IF data.isNull
    THEN NULL_DEREF_ERROR
    ELSE StringOf(IF Truthy(data.detail) THEN data.detail ELSE Str(GENERIC_ERROR))

\* fetch rejects (no connection)
GenerateFetchRejects(i) ==
  /\ GenStep
  /\ i \in 1..Len(genFetches)
  /\ GenerateCatch(i, NETWORK_ERROR)

\* a response arrives whose body is not JSON: response.json() rejects
GenerateJsonRejects(i) ==
  /\ GenStep
  /\ i \in 1..Len(genFetches)
  /\ GenerateCatch(i, PARSE_ERROR)

\* a response with a JSON body arrives and its status is not ok
GenerateNotOk(i, data) ==
  /\ GenStep
  /\ i \in 1..Len(genFetches)
  /\ GenerateCatch(i, ThrownMessage(data))

\* mutant: isGenerating is reset in the catch block only, not in a finally
GenerateOk_NoFinally(i, data) ==
  /\ GenStep
  /\ i \in 1..Len(genFetches)
  /\ genFetches' = RemoveAt(genFetches, i)
  /\ gen' = [gen EXCEPT !.generatedGame = data, !.showPreview = TRUE]
  /\ UNCHANGED genSent

\* a response with a JSON body arrives and its status is ok
GenerateOk(i, data) ==
  /\ GenStep
  /\ i \in 1..Len(genFetches)
  /\ genFetches' = RemoveAt(genFetches, i)
  /\ gen' = [gen EXCEPT !.generatedGame = data,
                        !.showPreview = TRUE,
                        !.isGenerating = FALSE]
  /\ UNCHANGED genSent

\* renderPreviewModal returns null unless showPreview && generatedGame
PreviewModalRendered == gen.showPreview /\ ~gen.generatedGame.isNull

\* <GamePreviewAnimation genre={selectedGenre} .../> inside the modal
PreviewGenre == gen.selectedGenre

\* mutant: closing the modal also drops the generated game
ClosePreview_ClearsGame ==
  /\ GenStep
  /\ PreviewModalRendered
  /\ gen' = [gen EXCEPT !.showPreview = FALSE, !.generatedGame = NullJson]
  /\ UNCHANGED <<genFetches, genSent>>

\* the close button of the preview modal
ClosePreview ==
  /\ GenStep
  /\ PreviewModalRendered
  /\ gen' = [gen EXCEPT !.showPreview = FALSE]
  /\ UNCHANGED <<genFetches, genSent>>
(***************************************************************************)
(* GameVideoPreview                                                        *)
(***************************************************************************)
SCENE_ERROR == "Could not generate video scenes. Using placeholder."

\* the four entries of scenePrompts: the label that opens `description`, and `action`
scenePrompts ==
  << [description |-> "Opening shot", action |-> "establishing wide shot, character visible in environment"],
     [description |-> "Action shot", action |-> "dynamic action pose, motion blur, dramatic angle"],
     [description |-> "Close-up", action |-> "detailed character shot, intense expression, ready for action"],
     [description |-> "Gameplay moment", action |-> "peak action moment, visual effects, cinematic composition"] >>

\* the gameData prop values the parent may pass
VideoGameData == { GameWithScene, OtherGameWithScene, GameWithoutSchema }

\* gameData?.schema
HasSchema(data) == ~data.isNull /\ data.schema # "absent"

\* image payloads of the backend, one per scene of a request sequence
ScenePayloads == << "iVBORw0KGgoA", "iVBORw0KGgoB", "iVBORw0KGgoC", "iVBORw0KGgoD" >>

\* `data:${data.mime_type};base64,${data.image_data}`
DataUri(mime_type, image_data) == <<"data:", mime_type, ";base64,", image_data>>

\* the bodies the backend may answer a scene request with
SceneReplies(req) ==
  { [success |-> TRUE,  mime_type |-> "image/png", image_data |-> ScenePayloads[req.scene_number]],
    [success |-> TRUE,  mime_type |-> "image/png", image_data |-> ""],
    [success |-> FALSE, mime_type |-> "", image_data |-> ""] }

NoRun == [pc |-> "idle", i |-> 0, newScenes |-> <<>>, game |-> ""]

VideoInit ==
  /\ \E d \in VideoGameData :
       video = [ gameData         |-> d,
                 mounted          |-> "constructed",
                 sceneImages      |-> <<>>,
                 currentScene     |-> 0,
                 isGenerating     |-> FALSE,
                 generationStatus |-> <<>>,
                 error            |-> None,
                 run              |-> NoRun,
                 lastRunGame      |-> "",
                 intervals        |-> <<>>,
                 runsStarted      |-> 0 ]
  /\ sceneFetches = <<>>
  /\ sceneLog = <<>>

\* the body of the request for scenePrompts[i] (i counts from 0 as in the loop);
\* `game` stands for the parts of the body taken from the gameData the run captured
SceneRequest(i, game) ==
  [ scene_description |-> scenePrompts[i + 1].description,
    action            |-> scenePrompts[i + 1].action,
    scene_number      |-> i + 1,
    total_scenes      |-> Len(scenePrompts),
    game              |-> game ]

\* `Generating scene ${i + 1} of ${scenePrompts.length}...`
StatusText(i) == <<"Generating scene ", i + 1, " of ", Len(scenePrompts), "...">>

\* mutant: the fetch is not awaited, the loop goes on to its pause at once
IssueScene_NoAwait(v, i, newScenes, game) ==
  /\ video' = [v EXCEPT !.generationStatus = StatusText(i),
                        !.run = [pc |-> "delay", i |-> i, newScenes |-> newScenes, game |-> game]]
  /\ sceneFetches' = Append(sceneFetches, SceneRequest(i, game))

\* one turn of the for loop up to its `await fetch`: the status line and the request
IssueScene(v, i, newScenes, game) ==
  /\ video' = [v EXCEPT !.generationStatus = StatusText(i),
                        !.run = [pc |-> "fetch", i |-> i, newScenes |-> newScenes, game |-> game]]
  /\ sceneFetches' = Append(sceneFetches, SceneRequest(i, game))

\* mutant: the guard does not test isGenerating
generateVideoScenes_NoBusyGuard(v) ==
  IF ~HasSchema(v.gameData)
    THEN /\ video' = v
         /\ UNCHANGED <<sceneFetches, sceneLog>>
    ELSE /\ v.runsStarted < MaxRuns
         /\ video' = [v EXCEPT !.isGenerating = TRUE,
                               !.error = None,
                               !.lastRunGame = v.gameData.name,
                               !.runsStarted = @ + 1,
                               !.generationStatus = StatusText(0),
                               !.run = [pc |-> "fetch", i |-> 0, newScenes |-> <<>>,
                                        game |-> v.gameData.name]]
         /\ sceneFetches' = <<SceneRequest(0, v.gameData.name)>>
         /\ sceneLog' = <<1>>

\* generateVideoScenes up to its first await, called on the component state v
generateVideoScenes(v) ==
  IF ~HasSchema(v.gameData) \/ v.isGenerating
    THEN /\ video' = v
         /\ UNCHANGED <<sceneFetches, sceneLog>>
    ELSE /\ v.runsStarted < MaxRuns
         /\ IssueScene([v EXCEPT !.isGenerating = TRUE,
                                 !.error = None,
                                 !.lastRunGame = v.gameData.name,
                                 !.runsStarted = @ + 1],
                       0, <<>>, v.gameData.name)
         /\ sceneLog' = <<1>>

\* useEffect(..., [gameData]) on mount
VideoMount ==
  /\ VideoStep
  /\ video.mounted = "constructed"
  /\ LET v == [video EXCEPT !.mounted = "mounted"]
     IN IF HasSchema(v.gameData)
          THEN generateVideoScenes(v)
          ELSE video' = v /\ UNCHANGED <<sceneFetches, sceneLog>>

\* the parent passes another gameData: re-render, then useEffect(..., [gameData])
VideoGameDataChange(d) ==
  /\ VideoStep
  /\ video.mounted = "mounted"
  /\ d # video.gameData
  /\ LET v == [video EXCEPT !.gameData = d]
     IN IF HasSchema(d)
          THEN generateVideoScenes(v)
          ELSE video' = v /\ UNCHANGED <<sceneFetches, sceneLog>>

\* the regenerate button: onPress={generateVideoScenes} disabled={isGenerating}
VideoRegenerate ==
  /\ VideoStep
  /\ video.mounted = "mounted"
  /\ ~video.isGenerating
  /\ generateVideoScenes(video)

\* the loop after `await fetch`/`await response.json()`: on to the 500 ms pause
AfterScene(newScenes) ==
  video' = [video EXCEPT !.run.pc = "delay", !.run.newScenes = newScenes]

\* mutant: a scene request that throws ends the run
SceneFails_AbortsRun(k) ==
  /\ VideoStep
  /\ k \in 1..Len(sceneFetches)
  /\ video.run.pc = "fetch"
  /\ sceneFetches' = RemoveAt(sceneFetches, k)
  /\ video' = [video EXCEPT !.error = Some(SCENE_ERROR),
                            !.isGenerating = FALSE,
                            !.generationStatus = <<>>,
                            !.run = NoRun]
  /\ UNCHANGED sceneLog

\* fetch or response.json() rejects, or the body is null: the catch block logs it
SceneFails(k) ==
  /\ VideoStep
  /\ k \in 1..Len(sceneFetches)
  /\ video.run.pc = "fetch"
  /\ sceneFetches' = RemoveAt(sceneFetches, k)
  /\ AfterScene(video.run.newScenes)
  /\ UNCHANGED sceneLog

\* a JSON body arrives: if (data.success && data.image_data) newScenes.push(...)
SceneResponds(k, data) ==
  /\ VideoStep
  /\ k \in 1..Len(sceneFetches)
  /\ video.run.pc = "fetch"
  /\ sceneFetches' = RemoveAt(sceneFetches, k)
  /\ AfterScene(IF data.success /\ data.image_data # ""
                  THEN Append(video.run.newScenes, DataUri(data.mime_type, data.image_data))
                  ELSE video.run.newScenes)
  /\ UNCHANGED sceneLog

\* startSceneRotation(totalScenes): setInterval(rotateScene, 4000); the function
\* it returns (the clearInterval) is dropped by the caller
startSceneRotation(intervals, totalScenes) ==
  Append(intervals, [sceneIndex |-> 0, totalScenes |-> totalScenes])

\* mutant: a run without a successful scene empties sceneImages
FinishRun_ClearsScenes ==
  LET newScenes == video.run.newScenes
  IN /\ video' =
          IF Len(newScenes) > 0
            THEN [video EXCEPT !.sceneImages = newScenes,
                               !.intervals = startSceneRotation(@, Len(newScenes)),
                               !.isGenerating = FALSE,
                               !.generationStatus = <<>>,
                               !.run = NoRun]
            ELSE [video EXCEPT !.sceneImages = <<>>,
                               !.error = Some(SCENE_ERROR),
                               !.isGenerating = FALSE,
                               !.generationStatus = <<>>,
                               !.run = NoRun]
     /\ UNCHANGED <<sceneFetches, sceneLog>>

\* the code after the for loop
FinishRun ==
  LET newScenes == video.run.newScenes
  IN /\ video' =
          IF Len(newScenes) > 0
            THEN [video EXCEPT !.sceneImages = newScenes,
                               !.intervals = startSceneRotation(@, Len(newScenes)),
                               !.isGenerating = FALSE,
                               !.generationStatus = <<>>,
                               !.run = NoRun]
            ELSE [video EXCEPT !.error = Some(SCENE_ERROR),
                               !.isGenerating = FALSE,
                               !.generationStatus = <<>>,
                               !.run = NoRun]
     /\ UNCHANGED <<sceneFetches, sceneLog>>

\* the 500 ms pause ends: i++, then the next turn of the loop or the code after it
SceneDelayDone ==
  /\ VideoStep
  /\ video.run.pc = "delay"
  /\ IF video.run.i + 1 < Len(scenePrompts)
       THEN /\ IssueScene(video, video.run.i + 1, video.run.newScenes, video.run.game)
            /\ sceneLog' = Append(sceneLog, video.run.i + 2)
       ELSE FinishRun

\* rotateScene of the k-th interval, with the callback of its fade-out:
\* sceneIndex = (sceneIndex + 1) % totalScenes; setCurrentScene(sceneIndex)
RotateScene(k) ==
  /\ VideoStep
  /\ k \in 1..Len(video.intervals)
  /\ LET next == (video.intervals[k].sceneIndex + 1) % video.intervals[k].totalScenes
     IN video' = [video EXCEPT !.intervals[k].sceneIndex = next,
                               !.currentScene = next]
  /\ UNCHANGED <<sceneFetches, sceneLog>>

\* what the video screen renders
VideoScreen ==
  IF video.isGenerating THEN "generating"
  ELSE IF Len(video.sceneImages) > 0 THEN "scene"
  ELSE "placeholder"

\* the text under the placeholder title: {error || 'AI-generated game footage will appear here'}
PlaceholderText ==
  IF video.error # None /\ video.error[1] # ""
    THEN video.error[1]
    ELSE "AI-generated game footage will appear here"
(***************************************************************************)
(* GamePreviewAnimation                                                    *)
(* Lengths are integers in units of 1/SCALE pixel, so that the wavy        *)
(* vertical movement of the enemy (at most half a pixel per tick) is on    *)
(* the grid.                                                               *)
(***************************************************************************)
\* Px(n): n pixels
Px(n) == n * SCALE

\* const { width } = Dimensions.get('window')
width == Px(ScreenWidth)

GAME_WIDTH == width - Px(40)

Max(a, b) == IF a >= b THEN a ELSE b
Min(a, b) == IF a <= b THEN a ELSE b

\* Math.sin(Date.now() / 500) * 0.5 lies in [-0.5, 0.5]: its values on the grid
Wave == { d \in -SCALE..SCALE : 2 * d >= -SCALE /\ 2 * d <= SCALE }

\* the props the parent may pass
AnimGenres == { "shooter", "racing" }
AnimGameData == { GameWithScene, GameWithoutSchema }

\* gameData?.schema?.initial_scene?.setting
HasSetting(data) == ~data.isNull /\ data.schema = "with_setting"

IntervalNames == { "enemyInterval", "bulletInterval", "particleInterval", "ambientInterval" }

AnimInit ==
  /\ \E d \in AnimGameData, g \in AnimGenres :
       anim = [ genre          |-> g,
                gameData       |-> d,
                mounted        |-> "constructed",
                enemyPos       |-> [x |-> Px(220), y |-> Px(40)],
                enemyDirection |-> 1,
                bgImage        |-> None,
                isLoadingBg    |-> FALSE,
                intervals      |-> [n \in IntervalNames |-> 0] ]
  /\ bgFetches = <<>>
  /\ bgSent = 0

\* the body of the request to /api/generate-preview-image
BgRequest(a) ==
  [ genre |-> a.genre,
    scene_description |-> a.gameData.name,
    style |-> "high-fidelity 3D realistic" ]

\* the bodies the backend may answer a preview-image request with
BgReplies ==
  { [success |-> TRUE,  mime_type |-> "image/png", image_data |-> ScenePayloads[1]],
    [success |-> FALSE, mime_type |-> "", image_data |-> ""] }

\* generateBackgroundImage up to its first await, called on the component state a
generateBackgroundImage(a) ==
  IF a.bgImage # None \/ a.isLoadingBg \/ ~HasSetting(a.gameData)
    THEN /\ anim' = a
         /\ UNCHANGED <<bgFetches, bgSent>>
    ELSE /\ bgSent < MaxBgRequests
         /\ anim' = [a EXCEPT !.isLoadingBg = TRUE]
         /\ bgFetches' = Append(bgFetches, BgRequest(a))
         /\ bgSent' = bgSent + 1

\* mutant: the cleanup leaves the ambient interval running
EffectCleanup_KeepsAmbient(a) ==
  [a EXCEPT !.intervals = [n \in IntervalNames |->
                             IF n = "ambientInterval" THEN @[n] ELSE Max(0, @[n] - 1)]]

\* the cleanup the effect returned: clearInterval of its four intervals
EffectCleanup(a) ==
  [a EXCEPT !.intervals = [n \in IntervalNames |-> Max(0, @[n] - 1)]]

\* the callbacks of the four intervals close over the render that ran the effect:
\* the enemyPos they read is the one of that render (kept where the game play is
\* part of the specification)
CloseOver(a) ==
  play' = IF "effectEnemyPos" \in DOMAIN play
            THEN [play EXCEPT !.effectEnemyPos = a.enemyPos]
            ELSE play

\* the body of useEffect(..., [enemyDirection, genre]): the background request,
\* then setInterval four times (the Animated loops carry no state of the model)
RunEffect(a) ==
  /\ generateBackgroundImage([a EXCEPT !.intervals = [n \in IntervalNames |-> @[n] + 1]])
  /\ CloseOver(a)

AnimMount ==
  /\ EffectStep
  /\ anim.mounted = "constructed"
  /\ RunEffect([anim EXCEPT !.mounted = "mounted"])

\* the parent passes another genre: re-render, cleanup, effect
AnimGenreChange(g) ==
  /\ EffectStep
  /\ anim.mounted = "mounted"
  /\ g # anim.genre
  /\ RunEffect(EffectCleanup([anim EXCEPT !.genre = g]))

AnimUnmount ==
  /\ AnimStep
  /\ anim.mounted = "mounted"
  /\ anim' = EffectCleanup([anim EXCEPT !.mounted = "unmounted"])
  /\ UNCHANGED <<bgFetches, bgSent>>

\* mutant: the right limit of the enemy is the one of the respawn
EnemyTick_WideBand(wave) ==
  /\ EffectStep
  /\ anim.mounted = "mounted"
  /\ anim.intervals["enemyInterval"] > 0
  /\ LET prev == anim.enemyPos
         stepX == prev.x + anim.enemyDirection * Px(3)
         newX == IF stepX > GAME_WIDTH - Px(50) THEN GAME_WIDTH - Px(50)
                 ELSE IF stepX < Px(40) THEN Px(40)
                 ELSE stepX
         newDir == IF stepX > GAME_WIDTH - Px(50) THEN -1
                   ELSE IF stepX < Px(40) THEN 1
                   ELSE anim.enemyDirection
         newY == Max(Px(20), Min(Px(80), prev.y + wave))
         moved == [anim EXCEPT !.enemyPos = [x |-> newX, y |-> newY],
                               !.enemyDirection = newDir]
     IN IF newDir # anim.enemyDirection
          THEN RunEffect(EffectCleanup(moved))
          ELSE anim' = moved /\ UNCHANGED <<bgFetches, bgSent, play>>

\* the callback of enemyInterval (every 40 ms).  The enemyDirection it reads is the
\* one its effect closed over, which is the current one: the effect runs again on
\* every change of enemyDirection.
EnemyTick(wave) ==
  /\ EffectStep
  /\ anim.mounted = "mounted"
  /\ anim.intervals["enemyInterval"] > 0
  /\ LET prev == anim.enemyPos
         stepX == prev.x + anim.enemyDirection * Px(3)
         newX == IF stepX > GAME_WIDTH - Px(60) THEN GAME_WIDTH - Px(60)
                 ELSE IF stepX < Px(40) THEN Px(40)
                 ELSE stepX
         newDir == IF stepX > GAME_WIDTH - Px(60) THEN -1
                   ELSE IF stepX < Px(40) THEN 1
                   ELSE anim.enemyDirection
         newY == Max(Px(20), Min(Px(80), prev.y + wave))
         moved == [anim EXCEPT !.enemyPos = [x |-> newX, y |-> newY],
                               !.enemyDirection = newDir]
     IN IF newDir # anim.enemyDirection
          THEN RunEffect(EffectCleanup(moved))
          ELSE anim' = moved /\ UNCHANGED <<bgFetches, bgSent, play>>

\* finally { setIsLoadingBg(false) }; a state update of an unmounted component is dropped
BgSettle(bgImage) ==
  anim' = IF anim.mounted = "mounted"
            THEN [anim EXCEPT !.bgImage = bgImage, !.isLoadingBg = FALSE]
            ELSE anim

\* fetch or response.json() rejects, or the body is null: the catch block logs it
BgFails(k) ==
  /\ AnimStep
  /\ k \in 1..Len(bgFetches)
  /\ bgFetches' = RemoveAt(bgFetches, k)
  /\ BgSettle(anim.bgImage)
  /\ UNCHANGED bgSent

\* a JSON body arrives: if (data.success && data.image_data) setBgImage(...)
BgResponds(k, data) ==
  /\ AnimStep
  /\ k \in 1..Len(bgFetches)
  /\ bgFetches' = RemoveAt(bgFetches, k)
  /\ BgSettle(IF data.success /\ data.image_data # ""
                THEN Some(DataUri(data.mime_type, data.image_data))
                ELSE anim.bgImage)
  /\ UNCHANGED bgSent

(***************************************************************************)
(* GamePreviewAnimation: the controls                                      *)
(***************************************************************************)
MOVE_SPEED == Px(12)
BOOST_SPEED == Px(22)
GAME_HEIGHT == Px(220)

\* the D-pad and the action buttons
Directions == { "up", "down", "left", "right" }
Buttons == { "A", "B", "C", "D" }

\* the offsets of the spread shot, in the order of their timeouts (i * 30 ms)
SPREAD_OFFSETS == << -20, -10, 0, 10, 20 >>

PlayInit ==
  /\ play = [ charX        |-> Px(140),
              charY        |-> Px(120),
              isJumping    |-> FALSE,
              bullets      |-> <<>>,
              isBoosting   |-> FALSE,
              activeBtn    |-> None,
              activeDpad   |-> None,
              score        |-> 0,
              bulletIdRef  |-> 0,
              spread       |-> <<>>,
              boostRunning |-> FALSE,
              jumps        |-> 0,
              shots        |-> 0,
              effectEnemyPos |-> [x |-> Px(220), y |-> Px(40)] ]
  /\ fx = [ particles |-> <<>>, explosions |-> <<>>, particleIdRef |-> 0 ]

\* particles: positions and velocities are in tenths of a length unit
\* (1/(10 * SCALE) px); Tenths(n) is n tenths of a pixel
Tenths(n) == n * SCALE

\* the results of Math.random() a muzzle flash uses, as velocity in tenths of a
\* pixel per tick and life in ticks; the five particles of a flash draw alike
MuzzleDraws ==
  { [vx |-> -15, vy |-> -30, life |-> 10],
    [vx |-> 14,  vy |-> -49, life |-> 19] }

\* createMuzzleFlash on the particle state f, for the character at (x, y)
createMuzzleFlash(f, x, y, rnd) ==
  [f EXCEPT
     !.particles = @ \o [ i \in 1..5 |->
                            [ id   |-> f.particleIdRef + i - 1,
                              x    |-> 10 * (x + Px(15)),
                              y    |-> 10 * (y - Px(10)),
                              vx   |-> Tenths(rnd.vx),
                              vy   |-> Tenths(rnd.vy),
                              life |-> rnd.life ] ],
     !.particleIdRef = @ + 5]

\* mutant: the moves are not clamped to the play area
handleDpadPress_NoClamp(direction) ==
  /\ PlayStep
  /\ anim.mounted = "mounted"
  /\ play.charX \in Px(-40)..(GAME_WIDTH + Px(40))
  /\ play.charY \in Px(-40)..(GAME_HEIGHT + Px(40))
  /\ LET speed == IF play.isBoosting THEN BOOST_SPEED ELSE MOVE_SPEED
     IN play' =
          [play EXCEPT
             !.activeDpad = Some(direction),
             !.charY = IF direction = "up" THEN @ - speed
                       ELSE IF direction = "down" THEN @ + speed
                       ELSE @,
             !.charX = IF direction = "left" THEN @ - speed
                       ELSE IF direction = "right" THEN @ + speed
                       ELSE @]
  /\ UNCHANGED <<anim, fx>>

\* mutant: the boost speed is used whether boosting or not
handleDpadPress_AlwaysBoost(direction) ==
  /\ PlayStep
  /\ anim.mounted = "mounted"
  /\ play' =
       [play EXCEPT
          !.activeDpad = Some(direction),
          !.charY = IF direction = "up" THEN Max(Px(40), @ - BOOST_SPEED)
                    ELSE IF direction = "down" THEN Min(GAME_HEIGHT - Px(60), @ + BOOST_SPEED)
                    ELSE @,
          !.charX = IF direction = "left" THEN Max(Px(20), @ - BOOST_SPEED)
                    ELSE IF direction = "right" THEN Min(GAME_WIDTH - Px(50), @ + BOOST_SPEED)
                    ELSE @]
  /\ UNCHANGED <<anim, fx>>

\* handleDpadPress
handleDpadPress(direction) ==
  /\ PlayStep
  /\ anim.mounted = "mounted"
  /\ LET speed == IF play.isBoosting THEN BOOST_SPEED ELSE MOVE_SPEED
     IN play' =
          [play EXCEPT
             !.activeDpad = Some(direction),
             !.charY = IF direction = "up" THEN Max(Px(40), @ - speed)
                       ELSE IF direction = "down" THEN Min(GAME_HEIGHT - Px(60), @ + speed)
                       ELSE @,
             !.charX = IF direction = "left" THEN Max(Px(20), @ - speed)
                       ELSE IF direction = "right" THEN Min(GAME_WIDTH - Px(50), @ + speed)
                       ELSE @]
  /\ UNCHANGED <<anim, fx>>

handleDpadRelease ==
  /\ PlayStep
  /\ anim.mounted = "mounted"
  /\ play' = [play EXCEPT !.activeDpad = None]
  /\ UNCHANGED <<anim, fx>>

\* case 'A': the bullet of one shot
newBullet == [ id |-> play.bulletIdRef, x |-> play.charX + Px(12), y |-> play.charY - Px(10),
               trail |-> <<>> ]

\* case 'C': the five setTimeout callbacks of one press; each closes over the
\* charX and charY of the render whose handler was pressed
SpreadBurst == [ charX |-> play.charX, charY |-> play.charY, next |-> 1 ]

\* mutant: B starts a jump whether one is running or not
handleButtonPress_NoJumpGuard(button, rnd) ==
  /\ PlayStep
  /\ anim.mounted = "mounted"
  /\ button = "B"
  /\ play.jumps < 3
  /\ play' = [play EXCEPT !.activeBtn = Some(button),
                          !.isJumping = TRUE,
                          !.jumps = @ + 1]
  /\ UNCHANGED <<anim, fx>>

\* handleButtonPress; rnd are the draws of the muzzle flash of A and C
handleButtonPress(button, rnd) ==
  /\ PlayStep
  /\ anim.mounted = "mounted"
  /\ button \in {"A", "C"} => play.shots < MaxShots
  /\ play' =
       IF button = "A"
         THEN [play EXCEPT !.activeBtn = Some(button),
                           !.bullets = Append(@, newBullet),
                           !.bulletIdRef = @ + 1,
                           !.shots = @ + 1]
       ELSE IF button = "B"
         THEN IF ~play.isJumping
                THEN [play EXCEPT !.activeBtn = Some(button),
                                  !.isJumping = TRUE,
                                  !.jumps = @ + 1]
                ELSE [play EXCEPT !.activeBtn = Some(button)]
       ELSE IF button = "C"
         THEN [play EXCEPT !.activeBtn = Some(button),
                           !.spread = Append(@, SpreadBurst),
                           !.shots = @ + 1]
       ELSE [play EXCEPT !.activeBtn = Some(button),
                         !.isBoosting = TRUE,
                         !.boostRunning = TRUE]
  /\ fx' = IF button \in {"A", "C"}
             THEN createMuzzleFlash(fx, play.charX, play.charY, rnd)
             ELSE fx
  /\ UNCHANGED anim

handleButtonRelease ==
  /\ PlayStep
  /\ anim.mounted = "mounted"
  /\ play' = [play EXCEPT !.activeBtn = None]
  /\ UNCHANGED <<anim, fx>>

\* the callback of a jump animation: .start(() => setIsJumping(false))
JumpDone ==
  /\ PlayStep
  /\ anim.mounted = "mounted"
  /\ play.jumps > 0
  /\ play' = [play EXCEPT !.isJumping = FALSE, !.jumps = @ - 1]
  /\ UNCHANGED <<anim, fx>>

\* the callback of the boost animation: .start(() => setIsBoosting(false))
BoostDone ==
  /\ PlayStep
  /\ anim.mounted = "mounted"
  /\ play.boostRunning
  /\ play' = [play EXCEPT !.isBoosting = FALSE, !.boostRunning = FALSE]
  /\ UNCHANGED <<anim, fx>>

\* the next setTimeout callback of the k-th spread shot
SpreadTimeout(k) ==
  /\ PlayStep
  /\ anim.mounted = "mounted"
  /\ k \in 1..Len(play.spread)
  /\ LET burst == play.spread[k]
         bullet == [ id    |-> play.bulletIdRef,
                     x     |-> burst.charX + Px(12) + Px(SPREAD_OFFSETS[burst.next]),
                     y     |-> burst.charY - Px(10),
                     trail |-> <<>> ]
     IN play' = [play EXCEPT
                   !.bullets = Append(@, bullet),
                   !.bulletIdRef = @ + 1,
                   !.spread = IF burst.next = Len(SPREAD_OFFSETS)
                                THEN RemoveAt(@, k)
                                ELSE [@ EXCEPT ![k].next = burst.next + 1]]
  /\ UNCHANGED <<anim, fx>>

(***************************************************************************)
(* GamePreviewAnimation: bullets, particles, explosions                    *)
(* The scale of an explosion is in units of 0.05.                          *)
(***************************************************************************)
\* the results of Math.random() at a hit: where the enemy appears again,
\* x in [50, GAME_WIDTH - 50) and y in [20, 60)
Respawns ==
  { [x |-> Px(50), y |-> Px(20)],
    [x |-> GAME_WIDTH - Px(51), y |-> Px(59)] }

\* the results of Math.random() for the particles of an explosion: speed in
\* [2, 5) and life in [30, 50); the twelve particles of an explosion draw alike
ExplosionDraws ==
  { [speed |-> 2, life |-> 30],
    [speed |-> 4, life |-> 49] }

\* the results of Math.random() of the ambient interval: whether a particle is
\* created (Math.random() > 0.7), x in [0, GAME_WIDTH), vx in [-0.25, 0.25) and
\* vy in (-3, -1] in tenths of a pixel per tick, life in [60, 100)
AmbientDraws ==
  { [create |-> FALSE, x |-> 0, vx |-> 0, vy |-> -10, life |-> 60],
    [create |-> TRUE,  x |-> 0, vx |-> -2, vy |-> -10, life |-> 60],
    [create |-> TRUE,  x |-> GAME_WIDTH - 1, vx |-> 2, vy |-> -29, life |-> 99] }

\* Math.cos and Math.sin of (i / 12) * 2 * PI for i = 0..11, in hundredths
COS12 == << 100, 87, 50, 0, -50, -87, -100, -87, -50, 0, 50, 87 >>
SIN12 == << 0, 50, 87, 100, 87, 50, 0, -50, -87, -100, -87, -50 >>

\* createExplosion(x, y) on the particle state f; explosionId (Date.now()) is
\* not carried
createExplosion(f, x, y, rnd) ==
  [f EXCEPT
     !.explosions = Append(@, [x |-> x, y |-> y, scale |-> 2]),
     !.particles = @ \o [ i \in 1..12 |->
                            [ id   |-> f.particleIdRef + i - 1,
                              x    |-> 10 * x,
                              y    |-> 10 * y,
                              vx   |-> Tenths((COS12[i] * rnd.speed) \div 10),
                              vy   |-> Tenths((SIN12[i] * rnd.speed) \div 10 - 20),
                              life |-> rnd.life ] ],
     !.particleIdRef = @ + 12]

\* createAmbientParticle on the particle state f
createAmbientParticle(f, rnd) ==
  [f EXCEPT
     !.particles = Append(@, [ id   |-> f.particleIdRef,
                               x    |-> 10 * rnd.x,
                               y    |-> 10 * (GAME_HEIGHT + Px(10)),
                               vx   |-> Tenths(rnd.vx),
                               vy   |-> Tenths(rnd.vy),
                               life |-> rnd.life ]),
     !.particleIdRef = @ + 1]

\* b.trail.slice(-3)
LastThree(s) == IF Len(s) <= 3 THEN s ELSE SubSeq(s, Len(s) - 2, Len(s))

\* mutant: the bullets are filtered but not moved
MoveBullets_NoMove(bullets) ==
  SelectSeq(bullets, LAMBDA b : b.y > Px(-30))

\* the first setBullets of the bullet interval: move up by 12, drop at y <= -30
MoveBullets(bullets) ==
  SelectSeq([ i \in 1..Len(bullets) |->
                [bullets[i] EXCEPT !.y = @ - Px(12),
                                   !.trail = LastThree(@) \o <<bullets[i].y>>] ],
            LAMBDA b : b.y > Px(-30))

\* the collision test of the bullet interval against an enemy position
Overlaps(bullet, enemy) ==
  /\ bullet.x > enemy.x - Px(20)
  /\ bullet.x < enemy.x + Px(50)
  /\ bullet.y < enemy.y + Px(40)
  /\ bullet.y > enemy.y - Px(10)

\* createExplosion once for each of n bullets that hit
RECURSIVE Explode(_, _, _, _, _)
Explode(f, n, x, y, rnd) ==
  IF n = 0 THEN f ELSE Explode(createExplosion(f, x, y, rnd), n - 1, x, y, rnd)

\* the callback of bulletInterval (every 25 ms): the bullets move, then each
\* bullet is tested against the enemyPos the callback closed over; a hit makes
\* an explosion there, adds 150 to the score and moves the enemy to a random place
BulletTick(respawn, rnd) ==
  /\ PlayStep
  /\ anim.mounted = "mounted"
  /\ anim.intervals["bulletInterval"] > 0
  /\ LET moved == MoveBullets(play.bullets)
         enemyPos == play.effectEnemyPos
         hits == Cardinality({ i \in 1..Len(moved) : Overlaps(moved[i], enemyPos) })
     IN /\ play.score + 150 * hits <= 150 * MaxHits
        /\ play' = [play EXCEPT !.bullets = moved, !.score = @ + 150 * hits]
        /\ anim' = IF hits > 0 THEN [anim EXCEPT !.enemyPos = respawn] ELSE anim
        /\ fx' = Explode(fx, hits, enemyPos.x + Px(15), enemyPos.y + Px(15), rnd)

\* mutant: a particle is dropped only when its life is below 0, an explosion
\* only when its scale is above 3
ParticleTick_KeepsSpent ==
  /\ PlayStep
  /\ anim.mounted = "mounted"
  /\ anim.intervals["particleInterval"] > 0
  /\ fx' = [fx EXCEPT
              !.particles =
                 SelectSeq([ i \in 1..Len(@) |->
                               [@[i] EXCEPT !.x = @ + fx.particles[i].vx,
                                            !.y = @ + fx.particles[i].vy,
                                            !.vy = @ + Tenths(1),
                                            !.life = @ - 1] ],
                           LAMBDA q : q.life >= 0),
              !.explosions =
                 SelectSeq([ i \in 1..Len(@) |-> [@[i] EXCEPT !.scale = @ + 3] ],
                           LAMBDA e : e.scale <= 60)]
  /\ UNCHANGED <<anim, play>>

\* the callback of particleInterval (every 30 ms)
ParticleTick ==
  /\ PlayStep
  /\ anim.mounted = "mounted"
  /\ anim.intervals["particleInterval"] > 0
  /\ fx' = [fx EXCEPT
              !.particles =
                 SelectSeq([ i \in 1..Len(@) |->
                               [@[i] EXCEPT !.x = @ + fx.particles[i].vx,
                                            !.y = @ + fx.particles[i].vy,
                                            !.vy = @ + Tenths(1),
                                            !.life = @ - 1] ],
                           LAMBDA q : q.life > 0),
              !.explosions =
                 SelectSeq([ i \in 1..Len(@) |-> [@[i] EXCEPT !.scale = @ + 3] ],
                           LAMBDA e : e.scale < 60)]
  /\ UNCHANGED <<anim, play>>

\* the callback of ambientInterval (every 200 ms)
AmbientTick(rnd) ==
  /\ PlayStep
  /\ anim.mounted = "mounted"
  /\ anim.intervals["ambientInterval"] > 0
  /\ rnd.create => fx.particleIdRef < MaxAmbient
  /\ fx' = IF rnd.create THEN createAmbientParticle(fx, rnd) ELSE fx
  /\ UNCHANGED <<anim, play>>

(***************************************************************************)
(* Specifications                                                          *)
(***************************************************************************)
\* the genre cards, example chips and platform buttons the user reaches in Spec
ReachableGenres == { "shooter", "racing" }
ReachableExamples == { 1 }
ReachablePlatforms == { "javascript", "unity" }

\* a component that is not part of a specification
Absent == [mounted |-> "absent"]
NoVideo == video = Absent /\ sceneFetches = <<>> /\ sceneLog = <<>>
\* the game play of the preview is not part of a specification
NoPlay == play = Absent /\ fx = Absent
NoAnim == anim = Absent /\ bgFetches = <<>> /\ bgSent = 0 /\ NoPlay
NoGen == gen = Absent /\ genFetches = <<>> /\ genSent = 0

\* GameGenerator: the form, the generate request and the preview modal
Init == GenInit /\ NoVideo /\ NoAnim

Next ==
  \/ \E g \in ReachableGenres : setSelectedGenre(g)
  \/ \E text \in TypedPrompts : setPrompt(text)
  \/ \E k \in ReachableExamples : handleExamplePrompt(k)
  \/ \E text \in TypedCharacters : setCharacterDescription(text)
  \/ \E c \in CONTROL_SCHEMES : setControlScheme(c)
  \/ \E p \in ReachablePlatforms : setTargetPlatform(p)
  \/ handleGenerate
  \/ \E i \in 1..Len(genFetches) : GenerateFetchRejects(i)
  \/ \E i \in 1..Len(genFetches) : GenerateJsonRejects(i)
  \/ \E i \in 1..Len(genFetches), data \in ErrorBodies : GenerateNotOk(i, data)
  \/ \E i \in 1..Len(genFetches), data \in OkBodies : GenerateOk(i, data)
  \/ ClosePreview

Spec == Init /\ [][Next]_vars

\* GameGenerator: the genre selector and the example chips, every genre and chip
PromptsNext ==
  \/ \E g \in GenreIds : setSelectedGenre(g)
  \/ \E k \in 1..Len(DEFAULT_PROMPTS) : handleExamplePrompt(k)

SpecPrompts == Init /\ [][PromptsNext]_vars

\* GameVideoPreview
VideoSpecInit == VideoInit /\ NoGen /\ NoAnim

VideoNext ==
  \/ VideoMount
  \/ \E d \in VideoGameData : VideoGameDataChange(d)
  \/ VideoRegenerate
  \/ \E k \in 1..Len(sceneFetches) : SceneFails(k)
  \/ \E k \in 1..Len(sceneFetches) : \E data \in SceneReplies(sceneFetches[k]) : SceneResponds(k, data)
  \/ SceneDelayDone
  \/ \E k \in 1..Len(video.intervals) : RotateScene(k)

SpecVideo == VideoSpecInit /\ [][VideoNext]_vars

\* a scene request in flight settles: it rejects or a body arrives
SceneSettles ==
  \E k \in 1..Len(sceneFetches) :
    \/ SceneFails(k)
    \/ \E data \in SceneReplies(sceneFetches[k]) : SceneResponds(k, data)

\* GameVideoPreview with the steps the runtime takes by itself: the effect after
\* the first render, the settling of a request, the end of the 500 ms pause.  The
\* user's steps (regenerate, another gameData) and the rotation carry no fairness.
SpecVideoLive ==
  /\ SpecVideo
  /\ WF_vars(VideoMount)
  /\ WF_vars(SceneSettles)
  /\ WF_vars(SceneDelayDone)

\* GamePreviewAnimation
AnimSpecInit == AnimInit /\ NoPlay /\ NoGen /\ NoVideo

AnimNext ==
  \/ AnimMount
  \/ \E g \in AnimGenres : AnimGenreChange(g)
  \/ AnimUnmount
  \/ \E wave \in Wave : EnemyTick(wave)
  \/ \E k \in 1..Len(bgFetches) : BgFails(k)
  \/ \E k \in 1..Len(bgFetches), data \in BgReplies : BgResponds(k, data)

SpecAnim == AnimSpecInit /\ [][AnimNext]_vars

\* GamePreviewAnimation as the preview modal renders it for a game without a
\* scene setting (no background request), before its first effect
PlaySpecInit ==
  /\ AnimInit
  /\ anim.genre = "shooter"
  /\ anim.gameData = GameWithoutSchema
  /\ PlayInit
  /\ NoGen
  /\ NoVideo

\* GamePreviewAnimation: the D-pad and the boost button
MoveNext ==
  \/ AnimMount
  \/ \E direction \in Directions : handleDpadPress(direction)
  \/ handleDpadRelease
  \/ \E rnd \in MuzzleDraws : handleButtonPress("D", rnd)
  \/ handleButtonRelease
  \/ BoostDone

SpecMove == PlaySpecInit /\ [][MoveNext]_vars

\* GamePreviewAnimation: the D-pad and the jump button
JumpNext ==
  \/ AnimMount
  \/ \E direction \in Directions : handleDpadPress(direction)
  \/ handleDpadRelease
  \/ \E rnd \in MuzzleDraws : handleButtonPress("B", rnd)
  \/ handleButtonRelease
  \/ JumpDone

SpecJump == PlaySpecInit /\ [][JumpNext]_vars

\* GamePreviewAnimation: the spread shot while the character moves sideways
SpreadNext ==
  \/ AnimMount
  \/ \E direction \in {"left", "right"} : handleDpadPress(direction)
  \/ handleDpadRelease
  \/ \E rnd \in MuzzleDraws : handleButtonPress("C", rnd)
  \/ handleButtonRelease
  \/ \E k \in 1..Len(play.spread) : SpreadTimeout(k)

SpecSpread == PlaySpecInit /\ [][SpreadNext]_vars

\* the waves and the draws the bullet specification follows
LowWave == { d \in Wave : \A e \in Wave : d <= e }
PlainMuzzle == { rnd \in MuzzleDraws : rnd.life = 10 }
PlainExplosion == { rnd \in ExplosionDraws : rnd.life = 30 }
LeftRespawn == { r \in Respawns : \A q \in Respawns : r.x <= q.x }

\* GamePreviewAnimation: the enemy, the shots and the bullets; a shot is fired
\* when no bullet is on the screen
BulletsNext ==
  \/ AnimMount
  \/ \E wave \in LowWave : EnemyTick(wave)
  \/ play.bullets = <<>> /\ \E rnd \in PlainMuzzle : handleButtonPress("A", rnd)
  \/ \E respawn \in Respawns, rnd \in PlainExplosion : BulletTick(respawn, rnd)

SpecBullets == PlaySpecInit /\ [][BulletsNext]_vars

\* a tick of the bullet interval
BulletTicks == \E respawn \in Respawns, rnd \in PlainExplosion : BulletTick(respawn, rnd)

\* GamePreviewAnimation: shots fired from below the enemy's band while the enemy
\* stays where it was at the mount; the character moves up between the shots
FireNext ==
  \/ AnimMount
  \/ handleDpadPress("up")
  \/ \E rnd \in PlainMuzzle : handleButtonPress("A", rnd)
  \/ BulletTicks

SpecFire == PlaySpecInit /\ [][FireNext]_vars

\* the same with the steps the runtime takes by itself: the effect after the
\* first render and the ticks of the bullet interval
SpecFireLive ==
  /\ SpecFire
  /\ WF_vars(AnimMount)
  /\ WF_vars(BulletTicks)

\* GamePreviewAnimation: the particles of the ambient interval, the muzzle
\* flashes and the explosions. The enemy is followed on its first sweep to the
\* right limit, where the effect runs again and the bullet interval closes over
\* a position the shots can hit; an ambient particle appears when no particle is
\* on the screen, a shot is fired when no particle and no bullet is.
ParticlesNext ==
  \/ AnimMount
  \/ anim.enemyDirection = 1 /\ \E wave \in LowWave : EnemyTick(wave)
  \/ /\ fx.particles = <<>>
     /\ play.bullets = <<>>
     /\ \E rnd \in PlainMuzzle : handleButtonPress("A", rnd)
  \/ \E respawn \in LeftRespawn, rnd \in PlainExplosion : BulletTick(respawn, rnd)
  \/ ParticleTick
  \/ fx.particles = <<>> /\ \E rnd \in AmbientDraws : AmbientTick(rnd)

SpecParticles == PlaySpecInit /\ [][ParticlesNext]_vars
(***************************************************************************)
(* Properties                                                              *)
(***************************************************************************)
\* a text with nothing but white space in it
Blank(text) == \A j \in 1..Len(text) : text[j] \in WhiteSpace

\* nothing to send: no genre selected, or a prompt that is empty once trimmed
NothingToSend == gen.selectedGenre = None \/ Blank(gen.prompt)

\* C1: a press of Generate with no genre selected or with a prompt that is empty
\* after trimming sets the validation error, issues no request and leaves
\* isGenerating, generatedGame and showPreview as they were.
C1_InvalidPressOnlySetsError ==
  [][ (NothingToSend /\ handleGenerate) =>
        /\ gen'.error = Some(VALIDATION_ERROR)
        /\ genSent' = genSent
        /\ genFetches' = genFetches
        /\ gen'.isGenerating = gen.isGenerating
        /\ gen'.generatedGame = gen.generatedGame
        /\ gen'.showPreview = gen.showPreview ]_vars

\* C1 witness: a genre is selected, the prompt is white space only, the press has
\* set the validation error and nothing was sent
C1_Witness ==
  /\ gen.selectedGenre # None
  /\ gen.prompt = <<" ">>
  /\ gen.error = Some(VALIDATION_ERROR)
  /\ genSent = 0
  /\ ~gen.isGenerating

\* some step of the i-th suspended run that ends in its catch block
GenerateFails(i) ==
  \/ GenerateFetchRejects(i)
  \/ GenerateJsonRejects(i)
  \/ \E data \in ErrorBodies : GenerateNotOk(i, data)

\* a step that takes a request out of flight
Completes == Len(genFetches') < Len(genFetches)

\* the server's detail is present in a body
DetailPresent(data) == ~data.isNull /\ data.detail # Undefined

\* C2 as stated: after a failed request the banner is the server's detail when
\* present and 'Failed to generate game' otherwise, and generatedGame and
\* showPreview have the values they had before the press.
C2_BannerIsDetailOrGeneric ==
  [][ Completes =>
      \A i \in 1..Len(genFetches) :
        /\ (GenerateFetchRejects(i) \/ GenerateJsonRejects(i)) =>
             gen'.error = Some(GENERIC_ERROR)
        /\ \A data \in ErrorBodies :
             GenerateNotOk(i, data) =>
               gen'.error =
                 IF DetailPresent(data) THEN Some(data.detail.s) ELSE Some(GENERIC_ERROR)
        /\ GenerateFails(i) =>
             /\ gen'.error # None
             /\ gen'.error[1] # ""
             /\ gen'.generatedGame = genFetches[i].before.generatedGame
             /\ gen'.showPreview = genFetches[i].before.showPreview ]_vars

\* the banner after a response that is not ok: the detail when it is a non-empty
\* string, the runtime's message when the body is null, the generic text otherwise
BannerAfterNotOk(data) ==
  IF data.isNull THEN NULL_DEREF_ERROR
  ELSE IF data.detail.t = "string" /\ data.detail.s # "" THEN data.detail.s
  ELSE GENERIC_ERROR

\* C2 amended: after a failed request the banner is non-empty: the message of the
\* error that was thrown (the runtime's message when fetch or the parsing of the
\* body throws, the server's detail when the status is not ok and the detail is a
\* non-empty string), 'Failed to generate game' when that message is empty; the
\* handling of the failure does not change generatedGame or showPreview.
C2_FailureShowsThrownMessage ==
  [][ Completes =>
      \A i \in 1..Len(genFetches) :
        /\ GenerateFetchRejects(i) => gen'.error = Some(NETWORK_ERROR)
        /\ GenerateJsonRejects(i) => gen'.error = Some(PARSE_ERROR)
        /\ \A data \in ErrorBodies :
             GenerateNotOk(i, data) => gen'.error = Some(BannerAfterNotOk(data))
        /\ GenerateFails(i) =>
             /\ gen'.error # None
             /\ gen'.error[1] # ""
             /\ gen'.generatedGame = gen.generatedGame
             /\ gen'.showPreview = gen.showPreview ]_vars

\* C2 witness: a response that was not ok and carried a detail with an empty
\* message has put the generic text on the banner, after an earlier success
C2_Witness ==
  /\ gen.error = Some(GENERIC_ERROR)
  /\ ~gen.isGenerating
  /\ genFetches = <<>>
  /\ genSent = 2
  /\ gen.generatedGame = GameWithScene
  /\ gen.showPreview

\* C3: a press of Generate that passes validation issues exactly one request, and
\* no other step issues one: a failure takes its request out of flight and sends
\* nothing.
C3_OneRequestPerPress ==
  [][ /\ (~NothingToSend /\ handleGenerate) =>
           /\ genSent' = genSent + 1
           /\ Len(genFetches') = Len(genFetches) + 1
      /\ (genSent' # genSent \/ Len(genFetches') > Len(genFetches)) =>
           (~NothingToSend /\ handleGenerate)
      /\ \A i \in 1..Len(genFetches) :
           GenerateFails(i) =>
             /\ genSent' = genSent
             /\ Len(genFetches') = Len(genFetches) - 1 ]_vars

\* C3 witness: one request was sent, it failed, and nothing is in flight
C3_Witness ==
  /\ genSent = 1
  /\ gen.error = Some(NETWORK_ERROR)
  /\ genFetches = <<>>
  /\ ~gen.isGenerating

\* C5: with no genre selected the example chips are DEFAULT_PROMPTS; with a genre
\* of GENRES selected they are GENRE_PROMPTS of that genre, never DEFAULT_PROMPTS.
C5_ExamplesFollowGenre ==
  /\ gen.selectedGenre = None => getExamplePrompts = DEFAULT_PROMPTS
  /\ \A n \in 1..Len(GENRES) :
       gen.selectedGenre = Some(GENRES[n]) =>
         /\ GENRES[n] \in DOMAIN GENRE_PROMPTS
         /\ getExamplePrompts = GENRE_PROMPTS[GENRES[n]]
         /\ getExamplePrompts # DEFAULT_PROMPTS

\* C5 witness: the last genre is selected and one of its chips was tapped
C5_Witness ==
  /\ gen.selectedGenre = Some("puzzle")
  /\ gen.prompt = <<"A time-manipulation puzzle changing past and future...">>

\* C6: the step that handles a response with ok status leaves generatedGame equal
\* to the body, showPreview true and error null.
C6_OkResponseShown ==
  [][ Completes =>
      \A i \in 1..Len(genFetches) : \A data \in OkBodies :
        GenerateOk(i, data) =>
          /\ gen'.generatedGame = data
          /\ gen'.showPreview
          /\ gen'.error = None ]_vars

\* C6 witness: the second request, sent after a failure, was answered ok
C6_Witness ==
  /\ genSent = 2
  /\ genFetches = <<>>
  /\ gen.generatedGame = GameWithoutSchema
  /\ gen.showPreview
  /\ gen.error = None
  /\ ~gen.isGenerating

\* C9: at most one generate request is in flight, and one is in flight exactly
\* while isGenerating is true, when the Generate button is disabled.
C9_OneGenerateInFlight ==
  /\ Len(genFetches) <= 1
  /\ gen.isGenerating <=> Len(genFetches) = 1
  /\ gen.isGenerating => ~GenerateButtonEnabled

\* C9 witness: the second request is in flight
C9_Witness ==
  /\ genSent = 2
  /\ Len(genFetches) = 1
  /\ gen.isGenerating

\* C10: a validated press sets isGenerating to true, and the step that completes
\* the request, with success or with failure, sets it back to false.
C10_IsGeneratingBrackets ==
  [][ /\ (~NothingToSend /\ handleGenerate) => gen'.isGenerating
      /\ Completes => ~gen'.isGenerating ]_vars

\* C10 witness: one request has succeeded and a later one has failed
C10_Witness ==
  /\ genSent = 2
  /\ ~gen.isGenerating
  /\ genFetches = <<>>
  /\ gen.generatedGame = GameWithScene
  /\ gen.error = Some(PARSE_ERROR)

\* C4: the scene requests of a run are issued in the order 1, 2, 3, 4 and at most
\* one of them is in flight: the one in flight is the last one issued, so the next
\* is issued only once it has completed.
C4_ScenesInOrderOneAtATime ==
  /\ Len(sceneFetches) <= 1
  /\ Len(sceneLog) <= Len(scenePrompts)
  /\ \A j \in 1..Len(sceneLog) : sceneLog[j] = j
  /\ sceneFetches # <<>> =>
       /\ video.run.pc = "fetch"
       /\ sceneFetches[1].scene_number = sceneLog[Len(sceneLog)]
       /\ sceneFetches[1].scene_number = video.run.i + 1

\* C4 witness: the fourth request of a run is in flight
C4_Witness ==
  /\ sceneLog = <<1, 2, 3, 4>>
  /\ Len(sceneFetches) = 1
  /\ sceneFetches[1].scene_number = 4

\* C7 as stated: after a run in which no scene request succeeded the screen is the
\* placeholder with the error text.
C7_ErrorTextDisplayed ==
  (video.mounted = "mounted" /\ ~video.isGenerating /\ video.error = Some(SCENE_ERROR)) =>
    (VideoScreen = "placeholder" /\ PlaceholderText = SCENE_ERROR)

\* C8 as stated: an instance issues at most one request to /api/generate-preview-image.
C8_AtMostOneBackgroundRequest == bgSent <= 1

\* C11 as stated: whenever sceneImages is non-empty, currentScene is an index of
\* it (0 <= currentScene < sceneImages.length).
C11_CurrentSceneInRange ==
  Len(video.sceneImages) > 0 =>
    (0 <= video.currentScene /\ video.currentScene < Len(video.sceneImages))

\* C12 as stated: at most one scene-rotation interval is active at any time.
C12_AtMostOneRotation == Len(video.intervals) <= 1

\* a step that ends a run of generateVideoScenes
RunEnds == video.isGenerating /\ ~video'.isGenerating

\* a reply that does not yield a scene
NoScene(data) == ~data.success \/ data.image_data = ""

\* C13: a run of generateVideoScenes issues exactly 4 scene requests: a request
\* that throws or is answered without a scene leaves the run at the pause before
\* the next turn of the loop, and the run ends only after requests 1, 2, 3, 4.
C13_FourRequestsPerRun ==
  [][ /\ RunEnds => sceneLog = <<1, 2, 3, 4>>
      /\ \A k \in 1..Len(sceneFetches) :
           ( \/ SceneFails(k)
             \/ \E data \in SceneReplies(sceneFetches[k]) :
                  NoScene(data) /\ SceneResponds(k, data) ) =>
             /\ video'.isGenerating
             /\ video'.run.pc = "delay"
             /\ video'.run.i = video.run.i
             /\ sceneLog' = sceneLog ]_vars

\* C13 witness: a run has ended after four requests of which the first and the
\* third gave no scene
C13_Witness ==
  /\ ~video.isGenerating
  /\ sceneLog = <<1, 2, 3, 4>>
  /\ video.sceneImages = << DataUri("image/png", ScenePayloads[2]),
                            DataUri("image/png", ScenePayloads[4]) >>

\* the scene number whose payload a data URI carries
SceneOf(uri) == CHOOSE n \in 1..Len(ScenePayloads) : ScenePayloads[n] = uri[4]

\* scenes listed in the order of their requests
InRequestOrder(scenes) ==
  \A a, b \in 1..Len(scenes) : a < b => SceneOf(scenes[a]) < SceneOf(scenes[b])

\* C14: the scenes collected by a run are the successful replies in request
\* order; when the run ends with at least one of them (1 to 4) sceneImages
\* becomes that list, and with none sceneImages is left unchanged.
C14_SceneImagesAfterRun ==
  [][ /\ \A k \in 1..Len(sceneFetches) :
           /\ SceneFails(k) => video'.run.newScenes = video.run.newScenes
           /\ \A data \in SceneReplies(sceneFetches[k]) :
                SceneResponds(k, data) =>
                  video'.run.newScenes =
                    IF NoScene(data)
                      THEN video.run.newScenes
                      ELSE video.run.newScenes \o
                             << <<"data:", data.mime_type, ";base64,", data.image_data>> >>
      /\ RunEnds =>
           IF video.run.newScenes # <<>>
             THEN /\ video'.sceneImages = video.run.newScenes
                  /\ Len(video'.sceneImages) \in 1..4
                  /\ InRequestOrder(video'.sceneImages)
             ELSE video'.sceneImages = video.sceneImages ]_vars

\* C14 witness: the first run gave scenes 1 and 3, the second run gave none and
\* has left them in place
C14_Witness ==
  /\ ~video.isGenerating
  /\ video.runsStarted = 2
  /\ video.error = Some(SCENE_ERROR)
  /\ video.sceneImages = << DataUri("image/png", ScenePayloads[1]),
                            DataUri("image/png", ScenePayloads[3]) >>

\* C15: at most one run of generateVideoScenes is active: a run starts only when
\* none is in progress, the regenerate button is not pressed during a run, and a
\* gameData change during a run issues no request and leaves the run as it is.
C15_OneRunAtATime ==
  [][ /\ video'.runsStarted # video.runsStarted => ~video.isGenerating
      /\ VideoRegenerate => ~video.isGenerating
      /\ video.isGenerating =>
           \A d \in VideoGameData :
             VideoGameDataChange(d) =>
               /\ sceneFetches' = sceneFetches
               /\ sceneLog' = sceneLog
               /\ video'.run = video.run
               /\ video'.isGenerating ]_vars

\* C15 witness: gameData has changed to another game with a schema during a run,
\* which goes on for the game it was started for
C15_Witness ==
  /\ video.isGenerating
  /\ video.gameData = OtherGameWithScene
  /\ video.run.game = GameWithScene.name
  /\ video.run.i = 2
  /\ Len(sceneFetches) = 1

\* C16 as stated: whenever gameData is a value with a schema, a run of
\* generateVideoScenes for it is eventually started (or gameData changes again).
C16_ChangeLeadsToRun ==
  \A d \in VideoGameData :
    HasSchema(d) =>
      ( (video.mounted = "mounted" /\ video.gameData = d)
          ~> (video.gameData # d \/ video.lastRunGame = d.name) )

\* C17 as stated: showPreview implies that generatedGame is not null, and the
\* preview modal is rendered exactly when showPreview is true.
C17_PreviewHasGame ==
  /\ gen.showPreview => ~gen.generatedGame.isNull
  /\ PreviewModalRendered <=> gen.showPreview

\* C18: while isGenerating is true the error is null.
C18_NoErrorWhileGenerating == gen.isGenerating => gen.error = None

\* C18 witness: the first request failed and put an error on the banner, and the
\* second request is in flight with the banner cleared
C18_Witness ==
  /\ gen.isGenerating
  /\ gen.error = None
  /\ genSent = 2
  /\ Len(genFetches) = 1
  /\ gen.generatedGame = NullJson
  /\ ~gen.showPreview

\* the hooks of GameGenerator other than showPreview
OtherHooks ==
  { "generatedGame", "selectedGenre", "prompt", "characterDescription",
    "controlScheme", "targetPlatform", "isGenerating", "error" }

\* C19: closing the preview modal sets showPreview to false and leaves every
\* other hook, and the requests, unchanged.
C19_CloseOnlyHidesPreview ==
  [][ ClosePreview =>
        /\ gen.showPreview /\ ~gen'.showPreview
        /\ \A h \in OtherHooks : gen'[h] = gen[h]
        /\ genFetches' = genFetches
        /\ genSent' = genSent ]_vars

\* C19 witness: the modal of a generated game was closed, the game and the form
\* are still there
C19_Witness ==
  /\ ~gen.showPreview
  /\ gen.generatedGame = GameWithScene
  /\ gen.selectedGenre = Some("racing")
  /\ gen.targetPlatform = "unity"
  /\ gen.prompt # <<>>
  /\ gen.error = None

\* C20 as stated: when a response brings the game the modal displays, the genre
\* passed to the preview is the genre that was sent in its request.
C20_PreviewGenreIsSentGenre ==
  [][ Completes =>
      \A i \in 1..Len(genFetches) : \A data \in OkBodies :
        (~data.isNull /\ GenerateOk(i, data)) =>
          (PreviewModalRendered' /\ PreviewGenre' = Some(genFetches[i].body.genre)) ]_vars

\* C25: the character stays inside the play area, 20 <= charX <= GAME_WIDTH - 50
\* and 40 <= charY <= GAME_HEIGHT - 60 (the game area is at least 190 wide).
C25_CharacterInPlayArea ==
  /\ GAME_WIDTH >= Px(190)
  /\ Px(20) <= play.charX /\ play.charX <= GAME_WIDTH - Px(50)
  /\ Px(40) <= play.charY /\ play.charY <= GAME_HEIGHT - Px(60)

\* C25 witness: boosted presses have taken the character into the top left corner
C25_Witness ==
  /\ play.charX = Px(20)
  /\ play.charY = Px(40)
  /\ play.isBoosting
  /\ play.activeDpad = Some("left")

Abs(n) == IF n >= 0 THEN n ELSE -n

\* C26: a D-pad press moves the character along one axis only (charY for up and
\* down, charX for left and right), by at most 12, or by at most 22 while
\* boosting, and leaves the bullets, the score and the enemy unchanged.
C26_DpadMovesOneAxis ==
  [][ \A direction \in Directions :
        handleDpadPress(direction) =>
          /\ direction \in {"up", "down"} => play'.charX = play.charX
          /\ direction \in {"left", "right"} => play'.charY = play.charY
          /\ Abs(play'.charX - play.charX) + Abs(play'.charY - play.charY)
               <= (IF play.isBoosting THEN Px(22) ELSE Px(12))
          /\ (direction = "up" => play'.charY <= play.charY)
          /\ (direction = "down" => play'.charY >= play.charY)
          /\ (direction = "left" => play'.charX <= play.charX)
          /\ (direction = "right" => play'.charX >= play.charX)
          /\ play'.bullets = play.bullets
          /\ play'.score = play.score
          /\ anim'.enemyPos = anim.enemyPos
          /\ anim'.enemyDirection = anim.enemyDirection ]_vars

\* C26 witness: one boosted press to the left from the start position
C26_Witness ==
  /\ play.charX = Px(140) - Px(22)
  /\ play.charY = Px(120)
  /\ play.isBoosting
  /\ play.activeDpad = Some("left")

\* a press of B
PressB == \E rnd \in MuzzleDraws : handleButtonPress("B", rnd)

\* C29: at most one jump animation runs, and it runs exactly while isJumping is
\* true: a press of B during a jump starts none, a press of B otherwise sets
\* isJumping, and the completion of the jump sets it back to false.
C29_OneJumpAtATime ==
  /\ [](play.jumps <= 1 /\ (play.isJumping <=> play.jumps = 1))
  /\ [][ /\ (play.isJumping /\ PressB) =>
              (play'.jumps = play.jumps /\ play'.isJumping)
         /\ (~play.isJumping /\ PressB) =>
              (play'.jumps = play.jumps + 1 /\ play'.isJumping)
         /\ JumpDone => (play.isJumping /\ ~play'.isJumping) ]_vars

\* C29 witness: B was pressed again, after a move, during the jump of an
\* earlier press
C29_Witness ==
  /\ play.isJumping
  /\ play.jumps = 1
  /\ play.activeBtn = Some("B")
  /\ play.activeDpad = None
  /\ play.charY = Px(120) - Px(12)

\* C30 as stated: each bullet of a spread shot is created at x = charX + 12 +
\* offset and y = charY - 10 for the character's position at the moment of its
\* creation, the offsets being -20, -10, 0, 10, 20.
C30_SpreadFromCurrentPosition ==
  [][ \A k \in 1..Len(play.spread) :
        SpreadTimeout(k) =>
          /\ Len(play'.bullets) = Len(play.bullets) + 1
          /\ LET bullet == play'.bullets[Len(play'.bullets)]
                 offset == SPREAD_OFFSETS[play.spread[k].next]
             IN /\ bullet.x = play.charX + Px(12) + Px(offset)
                /\ bullet.y = play.charY - Px(10) ]_vars

\* C21 as stated: when a bullet tick registers a hit, one of the bullets overlaps
\* the hit box of the position the enemy has at that tick.
C21_HitAtCurrentEnemy ==
  [][ play'.score > play.score =>
        \E i \in 1..Len(play'.bullets) : Overlaps(play'.bullets[i], anim.enemyPos) ]_vars

\* C22 as stated: each bullet scores at most once, so the score is at most 150
\* times the number of bullets created.
C22_ScoreOncePerBullet == play.score <= 150 * play.bulletIdRef

\* C27 as stated: after every tick of the enemy interval the enemy is inside its
\* band, and an enemy that has reached the right limit has direction -1, one that
\* has reached the left limit direction +1.
C27_TurnsOnReachingLimit ==
  [][ \A wave \in Wave :
        EnemyTick(wave) =>
          /\ Px(40) <= anim'.enemyPos.x /\ anim'.enemyPos.x <= GAME_WIDTH - Px(60)
          /\ Px(20) <= anim'.enemyPos.y /\ anim'.enemyPos.y <= Px(80)
          /\ anim'.enemyPos.x = GAME_WIDTH - Px(60) => anim'.enemyDirection = -1
          /\ anim'.enemyPos.x = Px(40) => anim'.enemyDirection = 1 ]_vars

\* C27 amended: every tick of the enemy interval leaves the enemy inside its
\* band, 40 <= x <= GAME_WIDTH - 60 and 20 <= y <= 80; a step that would pass the
\* right limit puts it on the limit with direction -1, a step that would pass the
\* left limit puts it on that limit with direction +1, and any other step, one
\* that lands exactly on a limit included, keeps the direction; wherever a hit
\* has moved the enemy before.
C27_EnemyInBand ==
  [][ \A wave \in Wave :
        EnemyTick(wave) =>
          LET stepX == anim.enemyPos.x + anim.enemyDirection * Px(3)
          IN /\ Px(40) <= anim'.enemyPos.x /\ anim'.enemyPos.x <= GAME_WIDTH - Px(60)
             /\ Px(20) <= anim'.enemyPos.y /\ anim'.enemyPos.y <= Px(80)
             /\ stepX > GAME_WIDTH - Px(60) =>
                  (anim'.enemyPos.x = GAME_WIDTH - Px(60) /\ anim'.enemyDirection = -1)
             /\ stepX < Px(40) =>
                  (anim'.enemyPos.x = Px(40) /\ anim'.enemyDirection = 1)
             /\ (stepX >= Px(40) /\ stepX <= GAME_WIDTH - Px(60)) =>
                  (anim'.enemyPos.x = stepX /\ anim'.enemyDirection = anim.enemyDirection) ]_vars

\* C27 witness: a hit has moved the enemy beyond the right limit of its band, and
\* the first tick after it has put the enemy on the limit, heading left
C27_Witness ==
  /\ play.score > 0
  /\ anim.enemyPos.x = GAME_WIDTH - Px(60)
  /\ anim.enemyPos.y < Px(59) /\ anim.enemyPos.y > Px(58)
  /\ anim.enemyDirection = -1

\* the bullet of a list that has the id of b
SameBullet(bullets, b) == { i \in 1..Len(bullets) : bullets[i].id = b.id }

\* C23: every bullet tick moves each bullet up by 12 and removes exactly the
\* bullets whose new y is at most -30; once no shot is left to fire the bullet
\* list becomes empty.
C23_BulletsLeave ==
  /\ [][ BulletTicks =>
           \A i \in 1..Len(play.bullets) :
             LET b == play.bullets[i]
                 kept == SameBullet(play'.bullets, b)
             IN IF b.y - Px(12) <= Px(-30)
                  THEN kept = {}
                  ELSE /\ Cardinality(kept) = 1
                       /\ \A j \in kept : /\ play'.bullets[j].y = b.y - Px(12)
                                            /\ play'.bullets[j].x = b.x ]_vars
  /\ [][ BulletTicks => Len(play'.bullets) <= Len(play.bullets) ]_vars
  /\ ((play.shots = MaxShots) ~> (play.bullets = <<>>))

\* C23 witness: every shot was fired and the bullets have left
C23_Witness ==
  /\ play.shots = MaxShots
  /\ play.bulletIdRef = MaxShots
  /\ play.bullets = <<>>
  /\ play.score = 0

\* C28: while the component is mounted at most one instance of each of the four
\* intervals is active, whatever number of times the effect has run again; before
\* the mount and after the unmount none is active.
C28_OneInstancePerInterval ==
  \A n \in IntervalNames :
    /\ anim.mounted = "mounted" => anim.intervals[n] <= 1
    /\ anim.mounted # "mounted" => anim.intervals[n] = 0

\* C28 witness: the effect has run again for a change of enemyDirection, the
\* enemy interval of that run has ticked, and then the component was unmounted
C28_Witness ==
  /\ anim.mounted = "unmounted"
  /\ anim.enemyDirection = -1
  /\ anim.enemyPos.x < GAME_WIDTH - Px(60)
  /\ \A n \in IntervalNames : anim.intervals[n] = 0

\* the ids and the lives of a list of particles, in the order of the list
IdsAndLives(particles) ==
  [ j \in 1..Len(particles) |-> <<particles[j].id, particles[j].life>> ]

\* C24: after every tick of the particle interval each remaining particle has a
\* life above 0 and each remaining explosion a scale below 3; a tick takes 1 from
\* the life of every particle and adds 0.15 to the scale of every explosion, and
\* removes exactly those that reach life 0 or scale 3. No particle a tick finds
\* has a life of 100 or more and no explosion a scale below 0.1, so a particle is
\* removed within 100 ticks and an explosion within 20.
C24_ParticlesAgeOut ==
  [][ ParticleTick =>
        /\ \A i \in 1..Len(fx.particles) : fx.particles[i].life < 100
        /\ \A i \in 1..Len(fx.explosions) :
             fx.explosions[i].scale >= 2 /\ (fx.explosions[i].scale - 2) % 3 = 0
        /\ \A j \in 1..Len(fx'.particles) : fx'.particles[j].life > 0
        /\ \A j \in 1..Len(fx'.explosions) : fx'.explosions[j].scale < 60
        /\ LET left == SelectSeq(fx.particles, LAMBDA q : q.life > 1)
           IN IdsAndLives(fx'.particles) =
                [ j \in 1..Len(left) |-> <<left[j].id, left[j].life - 1>> ]
        /\ LET removed == Len(fx.explosions) - Len(fx'.explosions)
           IN /\ removed >= 0
              /\ \A i \in 1..removed : fx.explosions[i].scale + 3 >= 60
              /\ \A j \in 1..Len(fx'.explosions) :
                   fx'.explosions[j].scale = fx.explosions[j + removed].scale + 3 ]_vars

\* C24 witness: a shot has hit, and the ticks of the particle interval have
\* removed the explosion and every particle of the muzzle flash and the explosion
C24_Witness ==
  /\ play.score > 0
  /\ fx.particleIdRef >= 17
  /\ fx.explosions = <<>>
  /\ fx.particles = <<>>
====
